---------------------------- MODULE Spec2Model ----------------------------
(***************************************************************************)
(* Model of the serial framing firmware of bottomside_rp_python.           *)
(*                                                                         *)
(* The repository holds two sketches of the same firmware:                 *)
(*   src/Arduino/Arduino.ino   logging only      (build.variant = "ino")   *)
(*   src/unnamed/part_000      logging + servos  (build.variant = "motors")*)
(* The state variables carry the names of Arduino.ino; part_000 calls      *)
(* read_bytes bytes_consumed, values data_recv and read_values             *)
(* data_recv_consumed.                                                     *)
(*                                                                         *)
(* What the C++ text leaves to the build is a field of `build`, chosen in  *)
(* Init and never changed: the signedness of plain char (Arduino.ino:4),   *)
(* the width of int, the result of a shift by at least the width of int,   *)
(* and what the subscripted counter of part_000 (lines 74, 79, 85) yields. *)
(***************************************************************************)
EXTENDS Integers, Sequences, FiniteSets

\* ------------------------------------------------------------ constants
\* #define VALUE_LENGTH 6 / DATA_RECV_LENGTH 6
VALUE_LENGTH == 6
\* #define MOTOR_COUNT 6
MOTOR_COUNT == 6
\* char buffer[64]
BufferSize == 64
\* `if (read_bytes >= 4)`: bytes per integer
GroupLen == 4
\* `int offset = 8; ... offset += 8;`
OffsetStep == 8

\* -------------------------------------------------------------- bounds
\* bytes the sender transmits in one run (two frames and one byte more)
MaxBytes == 49
\* bytes that may wait unread in the serial receive queue
MaxRx == 2
\* number of input streams the sender chooses from
NumShifts == 3

\* --------------------------------------------------------------- input
\* Bytes the sender's streams are cut from: as aligned groups they are
\* -1, 1, -2^31, 1500, 128, 32768, 65536, then 0x7F.
Pattern ==
  << 255, 255, 255, 255,   1, 0, 0, 0,     0, 0, 0, 128,   220, 5, 0, 0,
     128, 0, 0, 0,         0, 128, 0, 0,   0, 0, 1, 0,     127 >>

\* the k-th byte (k >= 1) of the stream that starts `s` bytes into Pattern
StreamByte(s, k) == Pattern[((k - 1 + s) % Len(Pattern)) + 1]

VARIABLES
  build,        \* what the build fixes (see above)
  shift,        \* which stream the sender transmits
  sent,         \* bytes transmitted so far
  rx,           \* serial receive queue: Serial.available() / Serial.read()
  pc,           \* position of the single thread of control
  c,            \* handleSerial's local `int c`
  i,            \* loop index of print_values / set_motors
  buffer,       \* char buffer[64]
  read_bytes,   \* int read_bytes      (bytes_consumed)
  values,       \* int values[6]       (data_recv)
  read_values,  \* int read_values     (data_recv_consumed)
  recv,         \* history: the bytes Serial.read() returned, in order
  ndecode,      \* history: number of parse_int calls
  decoded,      \* history: the value `ans` of each parse_int call, in order
  faultAt,      \* history: 0, or k / -k once the sender's k-th byte was
                \* lost / delivered twice on the link
  sink,         \* history: characters written to Serial
  servo         \* history: servo[i].writeMicroseconds(v) calls as <<i, v>>

vars == << build, shift, sent, rx, pc, c, i, buffer, read_bytes, values,
           read_values, recv, ndecode, decoded, faultAt, sink, servo >>

\* ------------------------------------------------------- int arithmetic
RECURSIVE Pow2(_)
Pow2(k) == IF k = 0 THEN 1 ELSE 2 * Pow2(k - 1)

\* INT_MAX and INT_MIN of an int of build.intBits bits
MaxInt == IF build.intBits = 16 THEN 32767 ELSE 2147483647
MinInt == (0 - MaxInt) - 1

\* x << k for 0 < k < width, kept to the width of int (two's complement)
ShlIn(x, k) ==
  LET w   == build.intBits
      low == x % Pow2(w - k)
  IN  IF low >= Pow2(w - k - 1) THEN (low - Pow2(w - k)) * Pow2(k)
                                ELSE low * Pow2(k)

\* x << k.  A shift by the width of int or more is undefined: the build
\* yields 0 (a shift loop) or shifts by k modulo the width (a barrel shifter).
Shl(x, k) ==
  IF k < build.intBits THEN ShlIn(x, k)
  ELSE IF build.overshift = "zero" THEN 0
  ELSE IF k % build.intBits = 0 THEN x
  ELSE ShlIn(x, k % build.intBits)

\* a + b kept to the width of int (two's complement wraparound)
AddInt(a, b) ==
  IF a >= 0 /\ b >= 0 /\ a > MaxInt - b THEN (a - MaxInt - 1) + (b - MaxInt - 1)
  ELSE IF a < 0 /\ b < 0 /\ a < MinInt - b THEN (a - MinInt) + (b - MinInt)
  ELSE a + b

\* `buffer[k] = c`: the value the char element then holds, the low 8 bits
\* of c as a signed or an unsigned char
ToChar(b) ==
  LET u == b % 256
  IN  IF build.charSigned /\ u >= 128 THEN u - 256 ELSE u

\* ------------------------------------------------------------ parse_int
\* the for loop of parse_int: i = 1..3, offset = 8, 16, 24
RECURSIVE ParseLoop(_, _, _)
ParseLoop(ans, k, offset) ==
  IF k < GroupLen
    THEN ParseLoop(AddInt(ans, Shl(buffer[k], offset)), k + 1, offset + OffsetStep)
    ELSE ans

\* Mutant of ParseAns: `ans` declared static and not set anew, so that each
\* call adds its group to the value of the call before.
ParseAnsStatic ==
  ParseLoop(AddInt(IF decoded = << >> THEN 0 ELSE decoded[Len(decoded)],
                   buffer[0]), 1, OffsetStep)

\* the value parse_int computes from buffer[0..3]
ParseAns == ParseLoop(buffer[0], 1, OffsetStep)

\* -------------------------------------------------------- Serial.print
Digit(d) == << "0", "1", "2", "3", "4", "5", "6", "7", "8", "9" >>[d + 1]

RECURSIVE DigitsOf(_)
DigitsOf(n) == IF n < 10 THEN << Digit(n) >>
               ELSE Append(DigitsOf(n \div 10), Digit(n % 10))

\* digits of -n for n < 0, computed without negating n (INT_MIN has no negative)
RECURSIVE DigitsOfNeg(_)
DigitsOfNeg(n) ==
  LET last == (10 - (n % 10)) % 10
      rest == (n + last) \div 10
  IN  IF rest = 0 THEN << Digit(last) >>
      ELSE Append(DigitsOfNeg(rest), Digit(last))

\* Serial.print(int): the decimal text, '-' first for a negative value
DecimalText(v) == IF v < 0 THEN << "-" >> \o DigitsOfNeg(v) ELSE DigitsOf(v)

\* Serial.println(""): the line end
EndOfLine == << "\r", "\n" >>

\* Serial.println("Begin.")
BeginLine == << "B", "e", "g", "i", "n", "." >> \o EndOfLine

\* ------------------------------------------- the frame data as accessed
\* What print and set_motors read as element k of the frame.  Arduino.ino
\* reads values[k].  part_000 subscripts the counter, data_recv_consumed[k],
\* which is no array: the read yields what the build makes of it, never the
\* contents of data_recv.
FrameRead(k) == IF build.variant = "ino" THEN values[k] ELSE build.wild

\* The frame array after `values[read_values++] = ans`.  part_000 stores
\* through the subscripted counter and never names data_recv, which keeps
\* its initial zeros.
FrameStore(ans) ==
  IF build.variant = "ino" /\ read_values \in DOMAIN values
    THEN [values EXCEPT ![read_values] = ans]
    ELSE values

\* ---------------------------------------------------------------- Init
Builds ==
  { b \in [ variant : {"ino", "motors"}, charSigned : BOOLEAN,
            intBits : {16, 32}, overshift : {"zero", "modulo"},
            wild : {0, -1} ] :
      /\ (b.variant = "motors" => ~b.charSigned)   \* unsigned char buffer[64]
      /\ (b.variant = "ino" => b.wild = 0)         \* no ill-formed access
      /\ (b.intBits = 32 => b.overshift = "zero")  \* no shift reaches 32
  }

Init ==
  /\ build \in Builds
  /\ shift \in 0 .. NumShifts - 1
  /\ sent = 0
  /\ rx = << >>
  /\ pc = "setup"
  /\ c = 0
  /\ i = 0
  /\ buffer = [k \in 0 .. BufferSize - 1 |-> 0]
  /\ read_bytes = 0
  /\ values = [k \in 0 .. VALUE_LENGTH - 1 |-> 0]
  /\ read_values = 0
  /\ recv = << >>
  /\ ndecode = 0
  /\ decoded = << >>
  /\ faultAt = 0
  /\ sink = << >>
  /\ servo = << >>

\* ------------------------------------------------------------- actions
\* The sender transmits the next byte of its stream; the UART queues it.
Arrive ==
  /\ pc # "setup"
  /\ sent < MaxBytes
  /\ Len(rx) < MaxRx
  /\ sent' = sent + 1
  /\ rx' = Append(rx, StreamByte(shift, sent + 1))
  /\ UNCHANGED << faultAt, decoded, build, shift, pc, c, i, buffer, read_bytes, values,
                  read_values, recv, ndecode, sink, servo >>

\* setup(): Serial.begin, (servo attach,) Serial.println("Begin.")
Setup ==
  /\ pc = "setup"
  /\ sink' = sink \o BeginLine
  /\ pc' = "loop"
  /\ UNCHANGED << faultAt, decoded, build, shift, sent, rx, c, i, buffer, read_bytes, values,
                  read_values, recv, ndecode, servo >>

\* Mutant of LoopAvailable: handleSerial called without asking
\* Serial.available().
LoopAvailableUnchecked ==
  /\ pc = "loop"
  /\ pc' = "read"
  /\ UNCHANGED << faultAt, decoded, build, shift, sent, rx, c, i, buffer, read_bytes, values,
                  read_values, recv, ndecode, sink, servo >>

\* loop(): while (Serial.available()) handleSerial();
LoopAvailable ==
  /\ pc = "loop"
  /\ pc' = IF rx # << >> THEN "read" ELSE "delay"
  /\ UNCHANGED << faultAt, decoded, build, shift, sent, rx, c, i, buffer, read_bytes, values,
                  read_values, recv, ndecode, sink, servo >>

\* Mutant of Delay: an idle link taken as the gap between frames, both
\* cursors set back to 0 (a timeout resynchronisation the code does not have).
DelayResync ==
  /\ pc = "delay"
  /\ pc' = "loop"
  /\ read_bytes' = 0
  /\ read_values' = 0
  /\ UNCHANGED << faultAt, decoded, build, shift, sent, rx, c, i, buffer, values,
                  recv, ndecode, sink, servo >>

\* Mutant of Delay: a delay that never returns.
DelayForever ==
  /\ pc = "delay"
  /\ UNCHANGED vars

\* loop(): delay(20);
Delay ==
  /\ pc = "delay"
  /\ pc' = "loop"
  /\ UNCHANGED << faultAt, decoded, build, shift, sent, rx, c, i, buffer, read_bytes, values,
                  read_values, recv, ndecode, sink, servo >>

\* handleSerial: int c = Serial.read();  Serial.read() does not wait: with
\* nothing queued it returns -1.
ReadByte ==
  /\ pc = "read"
  /\ c' = IF rx # << >> THEN Head(rx) ELSE -1
  /\ rx' = IF rx # << >> THEN Tail(rx) ELSE rx
  /\ recv' = Append(recv, c')
  /\ pc' = "store"
  /\ UNCHANGED << faultAt, decoded, build, shift, sent, i, buffer, read_bytes, values,
                  read_values, ndecode, sink, servo >>

\* handleSerial: buffer[read_bytes++] = c;
StoreByte ==
  /\ pc = "store"
  /\ buffer' = IF read_bytes \in DOMAIN buffer
                 THEN [buffer EXCEPT ![read_bytes] = ToChar(c)]
                 ELSE buffer
  /\ read_bytes' = read_bytes + 1
  /\ pc' = "chk4"
  /\ UNCHANGED << faultAt, decoded, build, shift, sent, rx, c, i, values, read_values, recv,
                  ndecode, sink, servo >>

\* Mutant of Check4: the test written `read_bytes > 4`.
Check4Late ==
  /\ pc = "chk4"
  /\ pc' = IF read_bytes > GroupLen THEN "parse" ELSE "chkN"
  /\ UNCHANGED << faultAt, decoded, build, shift, sent, rx, c, i, buffer, read_bytes, values,
                  read_values, recv, ndecode, sink, servo >>

\* handleSerial: if (read_bytes >= 4) {
Check4 ==
  /\ pc = "chk4"
  /\ pc' = IF read_bytes >= GroupLen THEN "parse" ELSE "chkN"
  /\ UNCHANGED << faultAt, decoded, build, shift, sent, rx, c, i, buffer, read_bytes, values,
                  read_values, recv, ndecode, sink, servo >>

\* parse_int(): decode buffer[0..3], values[read_values++] = ans;
ParseInt ==
  /\ pc = "parse"
  /\ values' = FrameStore(ParseAns)
  /\ read_values' = read_values + 1
  /\ ndecode' = ndecode + 1
  /\ decoded' = Append(decoded, ParseAns)
  /\ pc' = "rst4"
  /\ UNCHANGED << faultAt, build, shift, sent, rx, c, i, buffer, read_bytes, recv,
                  sink, servo >>

\* Mutant of Reset4: `read_bytes = 0;` left out.
Reset4Dropped ==
  /\ pc = "rst4"
  /\ pc' = "chkN"
  /\ UNCHANGED << faultAt, decoded, build, shift, sent, rx, c, i, buffer, read_bytes, values,
                  read_values, recv, ndecode, sink, servo >>

\* handleSerial: read_bytes = 0; }
Reset4 ==
  /\ pc = "rst4"
  /\ read_bytes' = 0
  /\ pc' = "chkN"
  /\ UNCHANGED << faultAt, decoded, build, shift, sent, rx, c, i, buffer, values, read_values,
                  recv, ndecode, sink, servo >>

\* Mutant of CheckN: the frame dispatched one value early,
\* `read_values >= VALUE_LENGTH - 1`.
CheckNEarly ==
  /\ pc = "chkN"
  /\ IF read_values >= VALUE_LENGTH - 1
       THEN pc' = "print" /\ i' = 0
       ELSE pc' = "loop" /\ i' = i
  /\ UNCHANGED << faultAt, decoded, build, shift, sent, rx, c, buffer, read_bytes, values,
                  read_values, recv, ndecode, sink, servo >>

\* Mutant of CheckN: the test written `read_values > VALUE_LENGTH`.
CheckNLate ==
  /\ pc = "chkN"
  /\ IF read_values > VALUE_LENGTH
       THEN pc' = "print" /\ i' = 0
       ELSE pc' = "loop" /\ i' = i
  /\ UNCHANGED << faultAt, decoded, build, shift, sent, rx, c, buffer, read_bytes, values,
                  read_values, recv, ndecode, sink, servo >>

\* handleSerial: if (read_values >= VALUE_LENGTH) {  print_values();
CheckN ==
  /\ pc = "chkN"
  /\ IF read_values >= VALUE_LENGTH
       THEN pc' = "print" /\ i' = 0
       ELSE pc' = "loop" /\ i' = i
  /\ UNCHANGED << faultAt, decoded, build, shift, sent, rx, c, buffer, read_bytes, values,
                  read_values, recv, ndecode, sink, servo >>

\* print_values(): one iteration, Serial.print(values[i]); Serial.print(";");
PrintValue ==
  /\ pc = "print"
  /\ i < VALUE_LENGTH
  /\ sink' = sink \o DecimalText(FrameRead(i)) \o << ";" >>
  /\ i' = i + 1
  /\ UNCHANGED << faultAt, decoded, build, shift, sent, rx, pc, c, buffer, read_bytes, values,
                  read_values, recv, ndecode, servo >>

\* print_values(): Serial.println(""); and, in Arduino.ino only,
\* read_values = 0;  part_000 goes on to set_motors().
PrintLn ==
  /\ pc = "print"
  /\ i >= VALUE_LENGTH
  /\ sink' = sink \o EndOfLine
  /\ IF build.variant = "ino"
       THEN read_values' = 0 /\ pc' = "rstN" /\ i' = i
       ELSE read_values' = read_values /\ pc' = "motors" /\ i' = 0
  /\ UNCHANGED << faultAt, decoded, build, shift, sent, rx, c, buffer, read_bytes, values,
                  recv, ndecode, servo >>

\* set_motors(): one iteration, servo[i].writeMicroseconds(...), or the
\* loop's exit
SetMotors ==
  /\ pc = "motors"
  /\ IF i < MOTOR_COUNT
       THEN /\ servo' = Append(servo, << i, FrameRead(i) >>)
            /\ i' = i + 1
            /\ pc' = pc
       ELSE /\ servo' = servo
            /\ i' = i
            /\ pc' = "rstN"
  /\ UNCHANGED << faultAt, decoded, build, shift, sent, rx, c, buffer, read_bytes, values,
                  read_values, recv, ndecode, sink >>

\* Mutant of ResetN: `data_recv_consumed = 0;` left out after set_motors().
ResetNDropped ==
  /\ pc = "rstN"
  /\ pc' = "loop"
  /\ UNCHANGED << faultAt, decoded, build, shift, sent, rx, c, i, buffer, read_bytes, values,
                  read_values, recv, ndecode, sink, servo >>

\* handleSerial: read_values = 0; }
ResetN ==
  /\ pc = "rstN"
  /\ read_values' = 0
  /\ pc' = "loop"
  /\ UNCHANGED << faultAt, decoded, build, shift, sent, rx, c, i, buffer, read_bytes, values,
                  recv, ndecode, sink, servo >>

Next ==
  \/ Arrive
  \/ Setup
  \/ LoopAvailable
  \/ Delay
  \/ ReadByte
  \/ StoreByte
  \/ Check4
  \/ ParseInt
  \/ Reset4
  \/ CheckN
  \/ PrintValue
  \/ PrintLn
  \/ SetMotors
  \/ ResetN

Spec == Init /\ [][Next]_vars


\* a step of the firmware itself: setup, loop or handleSerial
Step ==
  \/ Setup
  \/ LoopAvailable
  \/ Delay
  \/ ReadByte
  \/ StoreByte
  \/ Check4
  \/ ParseInt
  \/ Reset4
  \/ CheckN
  \/ PrintValue
  \/ PrintLn
  \/ SetMotors
  \/ ResetN

\* progress does not depend on the bytes: one stream
InitFair == Init /\ shift = 0

\* The processor keeps executing the sketch: a step of the firmware that
\* can be taken is taken.  Nothing is assumed of the sender.
FairSpec == InitFair /\ [][Next]_vars /\ WF_vars(Step)

\* ------------------------------------------------- reference definitions
\* bytes per frame on the wire
FrameBytes == GroupLen * VALUE_LENGTH

\* little-endian composition of four bytes (each 0..255) as a signed 32-bit
\* two's-complement integer
LE32(b0, b1, b2, b3) ==
  b0 + b1 * 256 + b2 * 65536 + (IF b3 >= 128 THEN b3 - 256 ELSE b3) * 16777216

\* decode of the g-th group (g >= 0) of the bytes received
GroupDecode(g) ==
  LE32(recv[4 * g + 1], recv[4 * g + 2], recv[4 * g + 3], recv[4 * g + 4])

\* the telemetry text of the first n values of frame f: each followed by ';'
RECURSIVE RecordPrefix(_, _)
RecordPrefix(f, n) ==
  IF n = 0 THEN << >>
  ELSE RecordPrefix(f, n - 1) \o DecimalText(f[n - 1]) \o << ";" >>

\* the telemetry record of frame f
RecordOf(f) == RecordPrefix(f, VALUE_LENGTH) \o EndOfLine

\* the k-th frame (k >= 0) the sender transmitted, decoded group by group
SentFrame(k) == [j \in 0 .. VALUE_LENGTH - 1 |-> GroupDecode(VALUE_LENGTH * k + j)]

\* the sink after setup and the records of the first n transmitted frames
RECURSIVE ExpectedSink(_)
ExpectedSink(n) ==
  IF n = 0 THEN BeginLine ELSE ExpectedSink(n - 1) \o RecordOf(SentFrame(n - 1))

EndsWith(s, t) ==
  /\ Len(s) >= Len(t)
  /\ SubSeq(s, Len(s) - Len(t) + 1, Len(s)) = t

\* telemetry records completed so far (line ends in the sink, less "Begin.")
Dispatched ==
  Cardinality({ k \in 1 .. Len(sink) : sink[k] = "\n" })
    - (IF pc = "setup" THEN 0 ELSE 1)

\* the positions between two handleSerial calls
BetweenCalls == { "loop", "delay", "read" }

\* the positions of the dispatch of a completed frame
InDispatch == { "print", "motors", "rstN" }

\* actuator calls per dispatched frame: the logging sketch has no actuator
CallsPerFrame == IF build.variant = "motors" THEN MOTOR_COUNT ELSE 0

\* ---------------------------------------- handleSerial from any cursors
\* largest cursor value a malformed caller leaves behind
MaxFaultCursor == 7

\* handleSerial has no caller but loop(), and no state below can arise in
\* Spec.  InitFault is the state a malformed caller would hand to
\* handleSerial: one of the two cursors is anything in 0..MaxFaultCursor.
InitFault ==
  /\ build \in Builds
  /\ shift = 0
  /\ sent = 0
  /\ rx = << >>
  /\ pc = "setup"
  /\ c = 0
  /\ i = 0
  /\ buffer = [k \in 0 .. BufferSize - 1 |-> 0]
  /\ values = [k \in 0 .. VALUE_LENGTH - 1 |-> 0]
  /\ \/ read_bytes \in 0 .. MaxFaultCursor /\ read_values = 0
     \/ read_bytes = 0 /\ read_values \in 0 .. MaxFaultCursor
  /\ recv = << >>
  /\ ndecode = 0
  /\ decoded = << >>
  /\ faultAt = 0
  /\ sink = << >>
  /\ servo = << >>

SpecFault == InitFault /\ [][Next]_vars

\* ------------------------------------------------- a link that faults once
\* the link fault falls on one of the sender's first MaxFaultPos bytes
MaxFaultPos == 6

\* The link loses the sender's next byte: it never reaches the receive queue.
Lose ==
  /\ pc # "setup"
  /\ faultAt = 0
  /\ sent < MaxFaultPos
  /\ sent' = sent + 1
  /\ faultAt' = sent + 1
  /\ UNCHANGED << decoded, build, shift, rx, pc, c, i, buffer, read_bytes, values,
                  read_values, recv, ndecode, sink, servo >>

\* The link delivers the sender's next byte twice.
Duplicate ==
  /\ pc # "setup"
  /\ faultAt = 0
  /\ sent < MaxFaultPos
  /\ Len(rx) + 2 <= MaxRx
  /\ sent' = sent + 1
  /\ rx' = rx \o << StreamByte(shift, sent + 1), StreamByte(shift, sent + 1) >>
  /\ faultAt' = 0 - (sent + 1)
  /\ UNCHANGED << decoded, build, shift, pc, c, i, buffer, read_bytes, values,
                  read_values, recv, ndecode, sink, servo >>

InitLoss == Init /\ shift = 0

NextLoss == Next \/ Lose \/ Duplicate

\* the firmware on a link that loses or duplicates at most one byte
SpecLoss == InitLoss /\ [][NextLoss]_vars

\* ================================================================ claims

\* C1: the setpoint parse_int stores for a 4-byte group is the little-endian
\* composition of the group's bytes as a signed 32-bit two's-complement
\* integer.  Stated right after parse_int returns, for the slot it wrote,
\* and only of builds whose int has the 32 bits the claim speaks of.
C1_StoredIsLE32 ==
  (build.intBits = 32 /\ pc = "rst4" /\ read_values \in 1 .. VALUE_LENGTH)
    => values[read_values - 1] = GroupDecode(ndecode - 1)

\* C2: after exactly 24 bytes the sink holds exactly one record, the six
\* decodes of the six groups, and (in the sketch that drives servos) exactly
\* six writeMicroseconds calls (i, decode of group i) for i = 0..5 in order.
\* Stated of builds whose int has 32 bits.
C2_OneFrameOf24Bytes ==
  (build.intBits = 32 /\ pc \in BetweenCalls /\ Len(recv) = FrameBytes)
    => /\ sink = ExpectedSink(1)
       /\ build.variant = "motors"
            => servo = [k \in 1 .. MOTOR_COUNT |-> << k - 1, GroupDecode(k - 1) >>]

\* C3: a partially filled frame is never dispatched.  Between handler calls,
\* after n bytes, floor(n/24) records have been emitted and 6*floor(n/24)
\* actuator calls made (none at all in the logging sketch, which has no
\* actuator); and the sink and the actuators are written only in the handler
\* call that consumed the last byte of a frame (setup's "Begin." apart).
C3_NoPartialDispatch ==
  /\ [](pc \in BetweenCalls =>
          /\ Dispatched = Len(recv) \div FrameBytes
          /\ Len(servo) = CallsPerFrame * (Len(recv) \div FrameBytes))
  /\ [][(sink' # sink \/ servo' # servo) =>
          \/ pc = "setup"
          \/ /\ Len(recv) > 0
             /\ Len(recv) % FrameBytes = 0
             /\ recv' = recv
             /\ pc \in InDispatch]_vars

\* C3 witness: 47 bytes in, the first frame dispatched, the second (23 bytes)
\* not.
C3_Witness ==
  /\ pc = "loop"
  /\ Len(recv) = 2 * FrameBytes - 1
  /\ Dispatched = 1
  /\ build.variant = "motors"
  /\ Len(servo) = MOTOR_COUNT

\* C4: back-to-back frames do not contaminate each other: between handler
\* calls the sink holds, in stream order, one record per complete frame
\* received, the k-th made of the decodes of bytes 24k+4i .. 24k+4i+3.
\* Stated of builds whose int has 32 bits.
C4_FramesInStreamOrder ==
  (build.intBits = 32 /\ pc \in BetweenCalls)
    => sink = ExpectedSink(Len(recv) \div FrameBytes)

\* C5: the byte cursor stays within 0..capacity; every write into the byte
\* buffer is at an index in 0..3; between handler calls the cursor is in
\* 0..3; parse_int runs exactly when the cursor has reached 4, once per four
\* bytes read, on the last four bytes read in arrival order; and the cursor
\* is reset before the next byte is read: between handler calls it counts
\* the bytes read since the last decode.
C5_ByteCursor ==
  /\ read_bytes \in 0 .. BufferSize
  /\ pc = "store" => read_bytes \in 0 .. GroupLen - 1
  /\ pc \in BetweenCalls => read_bytes \in 0 .. GroupLen - 1
  /\ pc \in BetweenCalls => read_bytes = Len(recv) - GroupLen * ndecode
  /\ read_bytes = GroupLen => pc \in { "chk4", "parse", "rst4" }
  /\ pc = "parse" =>
       /\ read_bytes = GroupLen
       /\ Len(recv) = GroupLen * (ndecode + 1)
       /\ \A k \in 0 .. GroupLen - 1 :
            buffer[k] % 256 = recv[Len(recv) - GroupLen + 1 + k]
  /\ pc = "rst4" => GroupLen * ndecode = Len(recv)
  /\ pc \in BetweenCalls => ndecode = Len(recv) \div GroupLen

\* C5 witness: parse_int about to run on the first group of the second frame.
C5_Witness ==
  /\ pc = "parse"
  /\ ndecode = VALUE_LENGTH
  /\ read_bytes = GroupLen
  /\ << buffer[0], buffer[1], buffer[2], buffer[3] >> # << 0, 0, 0, 0 >>

\* C6: the frame cursor starts at 0, stays within 0..N, every store of
\* parse_int is at an index in 0..N-1, the cursor changes only by +1 in
\* parse_int or from N to 0 in the dispatch, and it is N only inside the
\* handler call that dispatches: between handler calls it is in 0..N-1.
C6_FrameCursor ==
  /\ read_values = 0
  /\ [](/\ read_values \in 0 .. VALUE_LENGTH
        /\ pc = "parse" => read_values \in 0 .. VALUE_LENGTH - 1
        /\ pc \in BetweenCalls => read_values \in 0 .. VALUE_LENGTH - 1
        /\ read_values = VALUE_LENGTH => pc \in { "rst4", "chkN" } \cup InDispatch)
  /\ [][read_values' # read_values =>
          \/ pc = "parse" /\ read_values' = read_values + 1
          \/ /\ pc \in InDispatch
             /\ read_values = VALUE_LENGTH
             /\ read_values' = 0]_vars

\* C6 witness: the cursor at N inside the dispatching call.
C6_Witness ==
  /\ pc = "print"
  /\ read_values = VALUE_LENGTH
  /\ i = VALUE_LENGTH
  /\ Len(recv) = 2 * FrameBytes

\* C7: no torn frame.  A byte is read only when no dispatch is under way:
\* the frame cursor is below N, every record begun is ended and every round
\* of actuator calls begun is complete.  From the start of a dispatch to its
\* end, and so between its first and last actuator call, no byte is read and
\* the frame array is not written (bytes may meanwhile queue up in the
\* UART), and the actuator calls of one round follow each other in index
\* order.
C7_NoTornFrame ==
  /\ [][recv' # recv =>
          /\ read_values < VALUE_LENGTH
          /\ Len(servo) = CallsPerFrame * Dispatched
          /\ EndsWith(sink, EndOfLine)]_vars
  /\ [][(pc \in InDispatch \/ Len(servo) % MOTOR_COUNT # 0) =>
          /\ recv' = recv
          /\ values' = values]_vars
  /\ [][servo' # servo =>
          /\ Len(servo') = Len(servo) + 1
          /\ servo'[Len(servo')][1] = Len(servo) % MOTOR_COUNT]_vars

\* C7 witness: half of the actuator calls of a dispatch made, while the
\* first bytes of the next frame wait unread in the receive queue.
C7_Witness ==
  /\ pc = "motors"
  /\ i = 3
  /\ Len(servo) = 3
  /\ Len(rx) = MaxRx

\* C8: the telemetry record of a dispatched frame is value[0] ';' value[1]
\* ';' ... value[N-1] ';' and one line end, values in index order, directly
\* after the previous line end.  Stated at every point of the record: after
\* i values the sink ends with the previous line end and the first i values
\* of the frame array, each followed by ';'; after println it ends with the
\* whole record.
C8_TelemetryRecord ==
  /\ pc = "print" =>
       EndsWith(sink, EndOfLine \o RecordPrefix(values, i))
  /\ pc \in { "motors", "rstN" } =>
       EndsWith(sink, EndOfLine \o RecordOf(values))

\* C9: a cursor overrun is fatal, never masked.  handleSerial does not go on
\* to its buffer write with the byte cursor at 4 or more, and parse_int does
\* not go on to its store with the frame cursor at N or more.
C9_OverrunIsFatal ==
  /\ ~(pc = "store" /\ read_bytes >= GroupLen)
  /\ ~(pc = "parse" /\ read_values >= VALUE_LENGTH)

\* C10: framing is purely positional.  Between handler calls, after n bytes
\* of whatever values, the byte cursor is n mod 4, the frame cursor is
\* floor(n/4) mod 6 and floor(n/24) frames have been dispatched: the control
\* state is a function of n alone, the same for every stream and build.
C10_PositionalFraming ==
  pc \in BetweenCalls =>
    /\ read_bytes = Len(recv) % GroupLen
    /\ read_values = (Len(recv) \div GroupLen) % VALUE_LENGTH
    /\ Dispatched = Len(recv) \div FrameBytes

\* C10 witness: 29 bytes of a stream that is not group-aligned to Pattern.
C10_Witness ==
  /\ pc = "loop"
  /\ shift = 1
  /\ Len(recv) = FrameBytes + GroupLen + 1
  /\ read_bytes = 1
  /\ read_values = 1
  /\ Dispatched = 1

\* C11: the last statement of parse_int writes the decoded value into the
\* frame array at the position of the frame cursor, leaves every other slot
\* as it was and increments the cursor by exactly one: the data goes into
\* the frame array, not into the counter the completion check reads.
C11_AppendSetpoint ==
  [][(pc = "parse" /\ pc' = "rst4") =>
       /\ values' = [values EXCEPT ![read_values] = ParseAns]
       /\ read_values' = read_values + 1]_vars

\* C12: each buffered byte is an unsigned 8-bit quantity before the shift,
\* so the decoded value is negative exactly when the group's last byte is
\* 128 or more, whatever the other three bytes are.  Stated where parse_int
\* is about to run, of builds whose int has 32 bits.
C12_SignFromLastByte ==
  (build.intBits = 32 /\ pc = "parse") =>
    /\ \A k \in 0 .. GroupLen - 1 : buffer[k] \in 0 .. 255
    /\ (ParseAns < 0) <=> (recv[Len(recv)] >= 128)

\* C13: the order of the dispatch in the sketch that drives servos.  An
\* actuator call is made only with the frame cursor at N and the telemetry
\* record of the frame complete; the calls go to channels 0..N-1 in ascending
\* order, channel ch receiving the value decoded for slot ch of the frame
\* just completed; and the cursor goes back to 0 only after the record and
\* all N calls of the frame.
C13_DispatchOrder ==
  [][build.variant = "motors" =>
       /\ servo' # servo =>
            /\ read_values = VALUE_LENGTH
            /\ Dispatched = Len(servo) \div MOTOR_COUNT + 1
            /\ EndsWith(sink, EndOfLine)
            /\ servo' = Append(servo,
                 << Len(servo) % MOTOR_COUNT,
                    decoded[Len(decoded) - VALUE_LENGTH + 1
                              + (Len(servo) % MOTOR_COUNT)] >>)
       /\ (read_values = VALUE_LENGTH /\ read_values' = 0) =>
            /\ EndsWith(sink, EndOfLine)
            /\ Len(servo) = MOTOR_COUNT * Dispatched
            /\ Dispatched = Len(recv) \div FrameBytes]_vars

\* the g-th group (g >= 1) of four bytes received
GroupBytes(g) == SubSeq(recv, GroupLen * (g - 1) + 1, GroupLen * g)

\* C14: parse_int is a pure function of its four input bytes.  Any two
\* parse_int calls of a run that were given the same four bytes computed the
\* same value, whatever the cursors were, whatever earlier groups and frames
\* left behind and however many decodes came before.  Stated each time
\* parse_int has returned, of all the calls so far.
C14_DecodePure ==
  pc = "rst4" =>
    \A g1, g2 \in 1 .. Len(decoded) :
      GroupBytes(g1) = GroupBytes(g2) => decoded[g1] = decoded[g2]

\* C14 witness: the group 00 80 00 00 decoded a second time, in the next
\* frame, after six other groups, to the same value other than 0.
C14_Witness ==
  /\ pc = "rst4"
  /\ Len(decoded) = 2 * VALUE_LENGTH
  /\ GroupBytes(VALUE_LENGTH) = << 0, 128, 0, 0 >>
  /\ GroupBytes(2 * VALUE_LENGTH) = GroupBytes(VALUE_LENGTH)
  /\ decoded[2 * VALUE_LENGTH] = decoded[VALUE_LENGTH]
  /\ decoded[VALUE_LENGTH] # 0
  /\ decoded[2 * VALUE_LENGTH - 1] # decoded[VALUE_LENGTH - 1]

\* C15: one byte per poll iteration.  Serial.read() is called only right
\* after Serial.available() was true, with a byte waiting; each handleSerial
\* call reads exactly one byte, the head of the receive queue, and runs to
\* its end (store, possibly decode, possibly dispatch) before loop() asks for
\* availability again; and the bytes read, followed by those still queued,
\* are at all times the bytes the sender transmitted, in order, none skipped
\* and none twice.
C15_OneBytePerPoll ==
  /\ [](/\ pc = "read" => rx # << >>
        /\ Len(recv) + Len(rx) = sent
        /\ \A k \in 1 .. Len(recv) : recv[k] = StreamByte(shift, k)
        /\ \A k \in 1 .. Len(rx) : rx[k] = StreamByte(shift, Len(recv) + k))
  /\ [][recv' # recv =>
          /\ pc = "read"
          /\ recv' = Append(recv, Head(rx))
          /\ rx' = Tail(rx)
          /\ c' = Head(rx)]_vars
  /\ [][pc' # pc =>
          /\ pc' = "read" => (pc = "loop" /\ rx # << >>)
          /\ pc = "read" => (pc' = "store" /\ Len(recv') = Len(recv) + 1)
          /\ pc' = "loop" => pc \in { "setup", "delay", "chkN", "rstN" }
          /\ pc = "loop" => pc' \in { "read", "delay" }]_vars

\* C15 witness: the 25th byte just read while the 26th waits in the queue.
C15_Witness ==
  /\ pc = "store"
  /\ Len(recv) = FrameBytes + 1
  /\ c = StreamByte(shift, FrameBytes + 1)
  /\ rx = << StreamByte(shift, FrameBytes + 2) >>
  /\ sent = FrameBytes + 2

\* the byte of the sender's stream that the receiver's j-th byte is, once
\* the sender's byte number |faultAt| was lost (faultAt > 0) or delivered
\* twice (faultAt < 0)
SenderPos(j) ==
  IF faultAt > 0 THEN (IF j >= faultAt THEN j + 1 ELSE j)
  ELSE IF faultAt < 0 THEN (IF j > 0 - faultAt THEN j - 1 ELSE j)
  ELSE j

\* receiver's byte count less sender's byte count after the fault
Slip == IF faultAt > 0 THEN -1 ELSE IF faultAt < 0 THEN 1 ELSE 0

\* bytes of the sender's stream accounted for by the bytes read so far
SenderCount == Len(recv) - Slip

\* the fault lies behind the receiver: the byte after the lost one, or the
\* second copy of the duplicated one, has been read
FaultRead ==
  \/ faultAt > 0 /\ Len(recv) >= faultAt
  \/ faultAt < 0 /\ Len(recv) >= 1 - faultAt

\* C16: no resynchronisation.  Once one byte was lost or duplicated, the
\* bytes the firmware reads are the sender's from one position off; every
\* group decoded wholly after the fault is made of four consecutive bytes of
\* the sender that start one byte off the sender's group boundary; the
\* cursors go on counting the bytes read as if nothing had happened, so that
\* between handler calls the byte cursor never again agrees with the
\* sender's position in its group; and frames are dispatched one byte off
\* the sender's frame boundary.
C16_NoResync ==
  faultAt # 0 =>
    /\ \A j \in 1 .. Len(recv) : recv[j] = StreamByte(shift, SenderPos(j))
    /\ \A j \in 1 .. Len(rx) : rx[j] = StreamByte(shift, SenderPos(Len(recv) + j))
    /\ Len(recv) + Len(rx) = sent + Slip
    /\ \A g \in 1 .. Len(decoded) :
         SenderPos(GroupLen * (g - 1) + 1) # GroupLen * (g - 1) + 1 =>
           /\ GroupBytes(g) =
                [k \in 1 .. GroupLen |->
                   StreamByte(shift, GroupLen * (g - 1) + k - Slip)]
           /\ (GroupLen * (g - 1) - Slip) % GroupLen # 0
    /\ pc = "parse" =>
         \A k \in 0 .. GroupLen - 1 :
           buffer[k] % 256 = recv[Len(recv) - GroupLen + 1 + k]
    /\ pc \in BetweenCalls =>
         /\ read_bytes = Len(recv) % GroupLen
         /\ read_values = (Len(recv) \div GroupLen) % VALUE_LENGTH
         /\ Dispatched = Len(recv) \div FrameBytes
         /\ Len(decoded) = Len(recv) \div GroupLen
         /\ FaultRead => read_bytes # SenderCount % GroupLen
    /\ pc \in InDispatch =>
         /\ FaultRead
         /\ SenderCount % FrameBytes = (FrameBytes - Slip) % FrameBytes

\* C16 witness: the sender's byte 3 was lost; the first frame is dispatched
\* when the sender has transmitted 25 bytes, its last group made of the
\* sender's bytes 22..25.
C16_Witness ==
  /\ faultAt = 3
  /\ pc = "loop"
  /\ sent = FrameBytes + 1
  /\ Len(recv) = FrameBytes
  /\ Dispatched = 1
  /\ GroupBytes(VALUE_LENGTH) = [k \in 1 .. GroupLen |-> StreamByte(shift, FrameBytes - GroupLen + 1 + k)]

\* C17: dispatch changes only the frame cursor.  While a frame is emitted and
\* applied, the frame array, the byte buffer and the byte cursor stay as they
\* are; and after a dispatch the frame array is retained and overwritten in
\* place: between handler calls, the slots below the frame cursor hold the
\* values decoded for the frame being received, and every slot from the
\* cursor on still holds the value decoded for it in the frame dispatched
\* last.
C17_DispatchKeepsFrame ==
  /\ [][(pc \in InDispatch) =>
          /\ read_bytes' = read_bytes
          /\ buffer' = buffer
          /\ values' = values]_vars
  /\ [](pc \in BetweenCalls /\ Dispatched >= 1 =>
          \A k \in 0 .. VALUE_LENGTH - 1 :
            values[k] = IF k < read_values
                          THEN decoded[VALUE_LENGTH * Dispatched + k + 1]
                          ELSE decoded[VALUE_LENGTH * (Dispatched - 1) + k + 1])

\* C18: progress.  In every state the firmware has a step to take: no
\* terminal state, no step that waits.  With the processor running (weak
\* fairness of the firmware's steps) every byte that has arrived is
\* eventually read (again and again the firmware has read all that the
\* sender has transmitted so far), and the handler call that reads the 24th byte of a frame
\* goes on, before another byte is read, to dispatch the frame and to return
\* with the frame cursor at 0.
C18_Progress ==
  /\ [](ENABLED << Step >>_vars)
  /\ []<>(Len(recv) = sent)
  /\ \A k \in 1 .. MaxBytes \div FrameBytes :
       (pc = "store" /\ Len(recv) = FrameBytes * k)
         ~> (/\ pc = "loop"
             /\ Len(recv) = FrameBytes * k
             /\ Dispatched = k
             /\ Len(servo) = CallsPerFrame * k
             /\ read_values = 0)

\* C18 witness: the second frame dispatched and the handler back in loop(),
\* the 49th byte waiting to be read.
C18_Witness ==
  /\ pc = "loop"
  /\ Len(recv) = 2 * FrameBytes
  /\ Dispatched = 2
  /\ read_values = 0
  /\ sent = MaxBytes
  /\ Len(rx) = 1

\* ---------------------- what Arduino.ino makes of the bytes received
\* a received byte as an element of Arduino.ino's `char buffer[64]`, plain
\* char signed (s) or unsigned
InoChar(s, b) == IF s /\ b >= 128 THEN b - 256 ELSE b

\* the for loop of Arduino.ino's parse_int on the g-th group received
RECURSIVE InoParseLoop(_, _, _, _, _)
InoParseLoop(s, g, ans, k, offset) ==
  IF k < GroupLen
    THEN InoParseLoop(s, g,
           AddInt(ans, Shl(InoChar(s, recv[GroupLen * (g - 1) + k + 1]), offset)),
           k + 1, offset + OffsetStep)
    ELSE ans

\* the value Arduino.ino's parse_int stores for the g-th group (g >= 1)
InoParse(s, g) ==
  InoParseLoop(s, g, InoChar(s, recv[GroupLen * (g - 1) + 1]), 1, OffsetStep)

\* Arduino.ino's values[] when it dispatches the k-th frame (k >= 0)
InoFrame(s, k) ==
  [j \in 0 .. VALUE_LENGTH - 1 |-> InoParse(s, VALUE_LENGTH * k + j + 1)]

\* what Arduino.ino has written to Serial after n frames
RECURSIVE InoSink(_, _)
InoSink(s, n) ==
  IF n = 0 THEN BeginLine ELSE InoSink(s, n - 1) \o RecordOf(InoFrame(s, n - 1))

\* the ways plain char may be signed where Arduino.ino is built next to the
\* running sketch: its own, if the running sketch is Arduino.ino
InoSignedness == IF build.variant = "ino" THEN { build.charSigned } ELSE BOOLEAN

\* C19: the two sketches are framing-equivalent.  Between handler calls,
\* after the same bytes, the running sketch has the cursors that are the
\* function of the byte count alone (the same in both sketches), has
\* dispatched the same number of frames, and has written to Serial exactly
\* what Arduino.ino built for the same int writes for these bytes; the
\* actuator calls of part_000 are its only addition.
C19_VariantsAgree ==
  pc \in BetweenCalls =>
    /\ read_bytes = Len(recv) % GroupLen
    /\ read_values = (Len(recv) \div GroupLen) % VALUE_LENGTH
    /\ Len(servo) = CallsPerFrame * (Len(recv) \div FrameBytes)
    /\ \E s \in InoSignedness : sink = InoSink(s, Len(recv) \div FrameBytes)
=============================================================================
